---- MODULE Spec2Model ----
(***************************************************************************)
(* A model of the endpoint-to-specification pipeline of automd             *)
(* (src/automd/automd.py) and of its predecessor autoapi                   *)
(* (src/autoapi/autoapi.py): signature inference, location grouping,       *)
(* response resolution, path registration and application introspection.  *)
(*                                                                         *)
(* Strings whose characters matter (paths, verbs, locations, schema names) *)
(* are sequences of one-character strings, so that str.title, str.split,   *)
(* str.lower and concatenation are computed rather than assumed.           *)
(***************************************************************************)
EXTENDS Integers, Sequences, FiniteSets, TLC

\* automd: the AutoMD / AutoAPI instance (title, default_tag).
\* docs:   the APISpec objects made by start_spec, in order of creation.
\* plugin: the one MarshmallowPlugin of the instance (apispec_options).
\* last:   the last call made and what it returned or raised.
\* calls:  the number of register_path calls made.
\* input:  the arguments a caller holds for the calls it is about to make.
VARIABLES automd, docs, plugin, last, calls, input

vars == <<automd, docs, plugin, last, calls, input>>

----------------------------------------------------------------------------
(* Bounds of the model.                                                    *)

\* APISpec objects created by start_spec in one run.
MaxDocs == 2
\* register_path calls in one run.
MaxCalls == 2
\* Views in an application's handler table.
MaxViews == 2
\* Fields in an explicit parameter collection.
MaxFields == 3
\* Parameters in a signature, `self` not counted.
MaxParams == 2

\* F applied to the value of x, with x evaluated once.
With(x, F(_)) == CHOOSE y \in {F(v) : v \in {x}} : TRUE

----------------------------------------------------------------------------
(* Python strings.                                                         *)

LowerLetters == <<"a","b","c","d","e","f","g","h","i","j","k","l","m",
                  "n","o","p","q","r","s","t","u","v","w","x","y","z">>
UpperLetters == <<"A","B","C","D","E","F","G","H","I","J","K","L","M",
                  "N","O","P","Q","R","S","T","U","V","W","X","Y","Z">>

IndexIn(c, letters) ==
    IF \E i \in 1..Len(letters) : letters[i] = c
    THEN CHOOSE i \in 1..Len(letters) : letters[i] = c
    ELSE 0

IsLetter(c) == IndexIn(c, LowerLetters) > 0 \/ IndexIn(c, UpperLetters) > 0

\* str.upper / str.lower on one character.
UpperChar(c) ==
    IF IndexIn(c, LowerLetters) > 0 THEN UpperLetters[IndexIn(c, LowerLetters)] ELSE c
LowerChar(c) ==
    IF IndexIn(c, UpperLetters) > 0 THEN LowerLetters[IndexIn(c, UpperLetters)] ELSE c

\* str.lower
StrLower(s) == [i \in 1..Len(s) |-> LowerChar(s[i])]

\* str.title: a letter that follows a non-letter (or starts the string) is
\* upper-cased, every other letter is lower-cased.
StrTitle(s) ==
    [i \in 1..Len(s) |->
        IF i = 1 \/ ~IsLetter(s[i-1]) THEN UpperChar(s[i]) ELSE LowerChar(s[i])]

\* str.split("/"): the parts between slashes, empty parts kept.
RECURSIVE SplitSlash(_)
SplitSlash(s) ==
    IF \A i \in 1..Len(s) : s[i] # "/"
    THEN <<s>>
    ELSE LET k == CHOOSE i \in 1..Len(s) :
                      s[i] = "/" /\ \A j \in 1..(i-1) : s[j] # "/"
         IN <<SubSeq(s, 1, k-1)>> \o SplitSlash(SubSeq(s, k+1, Len(s)))

\* "".join(parts)
RECURSIVE JoinAll(_)
JoinAll(parts) ==
    IF parts = <<>> THEN <<>> ELSE Head(parts) \o JoinAll(Tail(parts))

\* url_name = "".join([part.title() for part in path_url.split("/")])
UrlName(path_url) ==
    LET parts == SplitSlash(path_url)
    IN JoinAll([i \in 1..Len(parts) |-> StrTitle(parts[i])])

EndsWith(s, suffix) ==
    Len(s) >= Len(suffix) /\ SubSeq(s, Len(s) - Len(suffix) + 1, Len(s)) = suffix

Digits == <<"0","1","2","3","4","5","6","7","8","9">>
\* str(n) for the counters the model reaches.
RECURSIVE StrOfNat(_)
StrOfNat(n) == IF n < 10 THEN <<Digits[n+1]>> ELSE StrOfNat(n \div 10) \o <<Digits[(n % 10) + 1]>>

SchemaWord == <<"S","c","h","e","m","a">>
ResponseSchemaWord == <<"R","e","s","p","o","n","s","e">> \o SchemaWord
GeneratedSchemaName == <<"G","e","n","e","r","a","t","e","d">> \o SchemaWord

GET == <<"G","E","T">>
POST == <<"P","O","S","T">>
Verbs == {GET, POST}

QUERY == <<"q","u","e","r","y">>
JSON == <<"j","s","o","n">>
PATHLOC == <<"p","a","t","h">>

\* Paths of the endpoints the model registers.
Paths == { <<"/","a">>, <<"/","a","/","b">> }

----------------------------------------------------------------------------
(* Fields (webargs / marshmallow Field objects).                           *)

\* Marks a keyword argument or metadata key that was not given. Python
\* values of keyword arguments are written as strings ("True", "None",
\* "Hello"); a location is a character sequence, so its presence in
\* field.metadata is the separate flag has_location.
Absent == "absent"

\* marshmallow Field.__init__ as called with **field_args: allow_none left
\* out, or given as None, is "not specified" and becomes (missing is None),
\* which is False because no `missing` argument is ever passed; every other
\* keyword (doc_default, description, location) lands in field.metadata.
NewField(kind, field_args) ==
    [kind        |-> kind,
     required    |-> field_args.required,
     allow_none  |-> IF field_args.allow_none \in {Absent, "None"}
                     THEN FALSE
                     ELSE field_args.allow_none = "True",
     doc_default |-> field_args.doc_default,
     description |-> field_args.description,
     has_location |-> field_args.has_location,
     location    |-> field_args.location]

\* A raised exception: its class and what its message names. The only
\* exceptions are those Python raises itself, for a missing key (the key)
\* and for a missing attribute (the object's type and the attribute); no
\* code wraps them, so the path and the verb of the endpoint being
\* registered are never part of one.
Err(class, object, attribute) ==
    [class |-> class, object |-> object, attribute |-> attribute,
     path_url |-> <<>>, http_verb |-> <<>>]
NoError == Err("none", "", "")

\* An ordered Python dict: a sequence of [key, val] with distinct keys.
DictKeys(d) == {d[i].key : i \in 1..Len(d)}
DictGet(d, k) == (CHOOSE i \in 1..Len(d) : d[i].key = k)
DictVal(d, k) == d[DictGet(d, k)].val
\* d[k] = v
DictSet(d, k, v) ==
    IF k \in DictKeys(d)
    THEN [d EXCEPT ![DictGet(d, k)] = [key |-> k, val |-> v]]
    ELSE Append(d, [key |-> k, val |-> v])

----------------------------------------------------------------------------
(* Signature-based inference: parse_parameter_schema, parameter_object is  *)
(* None.                                                                   *)

\* inspect._empty: no default declared / no annotation.
Empty == "_empty"

\* type_field_mapping (automd.responses.responses): annotation -> field
\* class. The annotation "Unmapped" stands for a type with no entry.
TypeFieldMapping ==
    [a \in {"str", "int", "Any"} |->
        CASE a = "str" -> "String"
          [] a = "int" -> "Integer"
          [] a = "Any" -> "Raw"]

\* FieldArgs with `required` taken from the presence of a default instead
\* of its absence.
FieldArgsRequiredFlipped(param) ==
    [required    |-> (param.default # Empty),
     doc_default |-> IF param.default # Empty THEN param.default ELSE Absent,
     allow_none  |-> IF param.default = "None" THEN param.default ELSE Absent,
     description |-> IF TypeFieldMapping[param.annotation] \in {"Raw", "Field"}
                     THEN "parameter of unspecified type"
                     ELSE Absent,
     has_location |-> FALSE,
     location    |-> <<>>]

\* The field_args dict built for one parameter of the signature.
FieldArgs(param) ==
    [required    |-> (param.default = Empty),
     doc_default |-> IF param.default # Empty THEN param.default ELSE Absent,
     allow_none  |-> IF param.default = "None" THEN param.default ELSE Absent,
     description |-> IF TypeFieldMapping[param.annotation] \in {"Raw", "Field"}
                     THEN "parameter of unspecified type"
                     ELSE Absent,
     has_location |-> FALSE,
     location    |-> <<>>]

\* The loop over func_signature.parameters.items(): the dict built so far,
\* or the KeyError of the first annotation without an entry.
RECURSIVE InferLoop(_, _)
InferLoop(params, acc) ==
    IF params = <<>> THEN [outcome |-> "ok", dict |-> acc, key |-> ""]
    ELSE LET param == Head(params) IN
         IF param.name = "self" THEN InferLoop(Tail(params), acc)
         ELSE IF param.annotation \notin DOMAIN TypeFieldMapping
         THEN [outcome |-> "KeyError", dict |-> <<>>, key |-> param.annotation]
         ELSE InferLoop(Tail(params),
                        DictSet(acc, param.name,
                                NewField(TypeFieldMapping[param.annotation],
                                         FieldArgs(param))))

InferParameters(func_signature) == InferLoop(func_signature, <<>>)

----------------------------------------------------------------------------
(* Location grouping.                                                      *)

\* field.metadata.get("location", "query")
FieldLocation(field) == IF field.has_location THEN field.location ELSE QUERY

\* The loop over parameter_dict.items() that fills location_argmaps.
RECURSIVE GroupLoop(_, _)
GroupLoop(parameter_dict, location_argmaps) ==
    IF parameter_dict = <<>> THEN location_argmaps
    ELSE LET name == Head(parameter_dict).key
             field == Head(parameter_dict).val
             location == FieldLocation(field)
             started == IF location \notin DictKeys(location_argmaps)
                        THEN DictSet(location_argmaps, location, <<>>)
                        ELSE location_argmaps
         IN GroupLoop(Tail(parameter_dict),
                      DictSet(started, location,
                              DictSet(DictVal(started, location), name, field)))

\* The grouping loop with `location_argmaps[location] = {}` done on every
\* field, not only on the first of its location.
RECURSIVE GroupLoopResetting(_, _)
GroupLoopResetting(parameter_dict, location_argmaps) ==
    IF parameter_dict = <<>> THEN location_argmaps
    ELSE LET name == Head(parameter_dict).key
             field == Head(parameter_dict).val
             location == FieldLocation(field)
         IN GroupLoopResetting(Tail(parameter_dict),
                               DictSet(location_argmaps, location,
                                       <<[key |-> name, val |-> field]>>))

LocationArgmapsResetting(parameter_dict) == GroupLoopResetting(parameter_dict, <<>>)

\* AutoMD.parse_parameter_schema, lines 95-101.
LocationArgmaps(parameter_dict) == GroupLoop(parameter_dict, <<>>)

\* AutoAPI.register_path, lines 88-94: the same loop.
LocationArgmapsAPI(parameter_dict) == GroupLoop(parameter_dict, <<>>)

\* schema_name = f"{url_name}{http_verb.title()}{loc.title()}Schema"
SchemaName(path_url, http_verb, loc) ==
    UrlName(path_url) \o StrTitle(http_verb) \o StrTitle(loc) \o SchemaWord

\* Schema.from_dict(argmap, name=...): a class that did not exist before.
GeneratedSchema(name, argmap) == [name |-> name, fields |-> argmap, generated |-> TRUE]

\* location_schemas of AutoMD: one named schema per location bucket.
LocationSchemas(location_argmaps, path_url, http_verb) ==
    [i \in 1..Len(location_argmaps) |->
        [key |-> location_argmaps[i].key,
         val |-> GeneratedSchema(
                    SchemaName(path_url, http_verb, location_argmaps[i].key),
                    location_argmaps[i].val)]]

\* location_schemas of AutoAPI: dict2schema(argmap) names every class
\* "GeneratedSchema".
LocationSchemasAPI(location_argmaps) ==
    [i \in 1..Len(location_argmaps) |->
        [key |-> location_argmaps[i].key,
         val |-> GeneratedSchema(GeneratedSchemaName, location_argmaps[i].val)]]

\* AutoMD.parse_parameter_schema: the ParameterSchema instance (its
\* Meta.include, one Nested field per location), or the error raised.
\* parameter_object is [kind |-> "None" | "dict" | "schema", fields |-> the
\* ordered dict of fields]: a Schema instance has a `fields` attribute, a
\* dict is used as it is.
ParseParameterSchema(parameter_object, func_signature, path_url, http_verb) ==
    With(IF parameter_object.kind = "None"
         THEN InferParameters(func_signature)
         ELSE [outcome |-> "ok", dict |-> parameter_object.fields, key |-> ""],
         LAMBDA inferred :
           IF inferred.outcome # "ok"
           THEN [outcome |-> inferred.outcome,
                 error   |-> Err("KeyError", inferred.key, ""),
                 dict |-> <<>>, argmaps |-> <<>>, include |-> <<>>]
           ELSE With(LocationArgmaps(inferred.dict),
                     LAMBDA location_argmaps :
                       [outcome |-> "ok",
                        error   |-> NoError,
                        dict    |-> inferred.dict,
                        argmaps |-> location_argmaps,
                        include |-> LocationSchemas(location_argmaps,
                                                    path_url, http_verb)]))

----------------------------------------------------------------------------
(* Response resolution.                                                    *)

ValueResponseSchemaName ==
    <<"V","a","l","u","e">> \o ResponseSchemaWord
ListResponseSchemaName ==
    <<"L","i","s","t">> \o ResponseSchemaWord
CustomSchemaName ==
    <<"C","u","s","t","o","m">> \o SchemaWord

\* mimetypes.MimeTypes().types_map[1][".txt"]
DefaultContentType == "text/plain"

\* A response descriptor or interface: id names the object, name is its
\* `_name` attribute (typing generics have one), to_schema says whether it
\* has that method and schema is the class the method returns an instance
\* of, content_type is what its content_type() returns (Absent: no such
\* method).
Descriptor(id, name, to_schema, schema, content_type) ==
    [id |-> id, name |-> name, to_schema |-> to_schema, schema |-> schema,
     content_type |-> content_type]

NoneDescriptor == Descriptor("None", Absent, FALSE, <<>>, Absent)

\* response_object_type_map (automd.responses.responses): recognized types,
\* and the names of recognized generics, to the canonical interface.
ResponseObjectTypeMap ==
    [k \in {"ValueResponse", "List"} |->
        IF k = "ValueResponse"
        THEN Descriptor("ValueResponse", Absent, TRUE, ValueResponseSchemaName,
                        "application/json")
        ELSE Descriptor("ListResponse", Absent, TRUE, ListResponseSchemaName,
                        "application/json")]

\* Lines 127-132: exact key, then `_name`, then the object itself.
ResponseInterface(response_object) ==
    IF response_object.id \in DOMAIN ResponseObjectTypeMap
    THEN ResponseObjectTypeMap[response_object.id]
    ELSE IF response_object.name \in DOMAIN ResponseObjectTypeMap
    THEN ResponseObjectTypeMap[response_object.name]
    ELSE response_object

\* A class defined once, in the program text: the same class on every call.
DeclaredSchema(name) == [name |-> name, fields |-> <<>>, generated |-> FALSE]

\* The content type without the except branch's fallback for a missing
\* method.
ResponseContentTypeNoFallback(response_interface) ==
    IF response_interface.id = "None"
    THEN DefaultContentType
    ELSE response_interface.content_type

\* Lines 141-145: content_type(), or text/plain on AttributeError (None has
\* no attributes at all).
ResponseContentType(response_interface) ==
    IF response_interface.id = "None" \/ response_interface.content_type = Absent
    THEN DefaultContentType
    ELSE response_interface.content_type

\* AutoMD.parse_response_schema.
ParseResponseSchema(response_object, path_url, http_verb) ==
    LET response_interface == ResponseInterface(response_object) IN
    IF response_interface.id # "None"
    THEN IF ~response_interface.to_schema
         THEN [outcome |-> "AttributeError",
               error |-> Err("AttributeError", response_interface.id, "to_schema"),
               schema |-> DeclaredSchema(<<>>), content_type |-> ""]
         ELSE [outcome |-> "ok", error |-> NoError,
               schema |-> DeclaredSchema(response_interface.schema),
               content_type |-> ResponseContentType(response_interface)]
    ELSE [outcome |-> "ok", error |-> NoError,
          schema |-> GeneratedSchema(
                        UrlName(path_url) \o StrTitle(http_verb) \o ResponseSchemaWord,
                        <<>>),
          content_type |-> ResponseContentType(response_interface)]

\* AutoAPI.register_path, lines 111-126: to_schema() is called on whatever
\* the interface is.
ParseResponseSchemaAPI(response_object) ==
    LET response_interface == ResponseInterface(response_object) IN
    IF response_interface.id = "None" \/ ~response_interface.to_schema
    THEN [outcome |-> "AttributeError",
          error |-> Err("AttributeError", response_interface.id, "to_schema"),
          schema |-> DeclaredSchema(<<>>), content_type |-> ""]
    ELSE [outcome |-> "ok", error |-> NoError,
          schema |-> DeclaredSchema(response_interface.schema),
          content_type |-> ResponseContentType(response_interface)]

----------------------------------------------------------------------------
(* The APISpec document and the MarshmallowPlugin (apispec), as far as      *)
(* register_path drives them through api_spec.path.                        *)
(*                                                                         *)
(* A document is [paths, components]: paths maps a path to its operations  *)
(* (verb -> operation), components is the set of schema names under        *)
(* components/schemas. The plugin is [spec, refs]: the document its        *)
(* converter registers schemas into (0: none yet) and the converter's      *)
(* refs, schema class -> registered name. Only declared classes are kept   *)
(* in refs: a class made by Schema.from_dict is never seen again.          *)

EmptyFunction == [x \in {} |-> x]

NewDocument == [paths |-> EmptyFunction, components |-> {}]

\* apispec's default schema_name_resolver: the class name without a
\* trailing "Schema".
SchemaNameResolver(class_name) ==
    IF EndsWith(class_name, SchemaWord) /\ Len(class_name) > Len(SchemaWord)
    THEN SubSeq(class_name, 1, Len(class_name) - Len(SchemaWord))
    ELSE class_name

\* apispec's get_unique_schema_name: name, name1, name2, ...
RECURSIVE GetUniqueSchemaName(_, _, _)
GetUniqueSchemaName(components, name, counter) ==
    IF name \notin components THEN name
    ELSE LET stem == IF counter = 0 THEN name
                     ELSE SubSeq(name, 1, Len(name) - Len(StrOfNat(counter)))
         IN GetUniqueSchemaName(components, stem \o StrOfNat(counter + 1), counter + 1)

\* OpenAPIConverter.resolve_nested_schema on the plugin's own spec: a class
\* in refs is referenced by its registered name; any other is registered
\* under a name unique among that spec's components.
ResolveNestedSchema(ds, plug, schema) ==
    IF ~schema.generated /\ schema.name \in DOMAIN plug.refs
    THEN [docs |-> ds, plugin |-> plug, ref |-> plug.refs[schema.name]]
    ELSE With(GetUniqueSchemaName(ds[plug.spec].components,
                                  SchemaNameResolver(schema.name), 0),
              LAMBDA name :
                [docs   |-> [ds EXCEPT ![plug.spec].components = @ \cup {name}],
                 plugin |-> IF schema.generated THEN plug
                            ELSE [plug EXCEPT !.refs = (schema.name :> name) @@ @],
                 ref    |-> name])

\* MarshmallowPlugin.operation_helper: the schemas of an operation in the
\* order it resolves them (parameters, then the response).
RECURSIVE ResolveSchemas(_, _, _, _)
ResolveSchemas(ds, plug, schemas, refs) ==
    IF schemas = <<>> THEN [docs |-> ds, plugin |-> plug, refs |-> refs]
    ELSE With(ResolveNestedSchema(ds, plug, Head(schemas)),
              LAMBDA r :
                ResolveSchemas(r.docs, r.plugin, Tail(schemas), Append(refs, r.ref)))

\* The path table with `self._paths[path] = operations`.
PathsAssign(paths, path, operations) ==
    [q \in DOMAIN paths \cup {path} |->
        IF q = path THEN operations ELSE paths[q]]

\* self._paths.setdefault(path, operations).update(operations)
PathsUpdate(paths, path, operations) ==
    IF path \in DOMAIN paths
    THEN [paths EXCEPT ![path] =
            [v \in DOMAIN @ \cup DOMAIN operations |->
                IF v \in DOMAIN operations THEN operations[v] ELSE @[v]]]
    ELSE (path :> operations) @@ paths

\* api_spec.path(path=path_url, operations=operations), lines 199-202: the
\* plugin resolves the operation's schemas, then the operation is stored in
\* api_spec (document d).
SpecPath(ds, plug, d, path_url, verb_key, include, response, content_type, tags) ==
    With(ResolveSchemas(ds, plug,
                        [i \in 1..Len(include) |-> include[i].val] \o <<response>>,
                        <<>>),
         LAMBDA r :
           LET operation ==
                [responses  |-> [code |-> "200", description |-> "OK",
                                 content_type |-> content_type,
                                 schema |-> r.refs[Len(include) + 1]],
                 parameters |-> [i \in 1..Len(include) |->
                                    [name |-> include[i].key, schema |-> r.refs[i]]],
                 tags       |-> tags]
           IN [docs   |-> [r.docs EXCEPT ![d].paths =
                            PathsUpdate(@, path_url, (verb_key :> operation))],
               plugin |-> r.plugin])

\* self.default_tag = {"name": default_tag or title}
DefaultTag(title, default_tag) ==
    IF default_tag \in {"None", ""} THEN title ELSE default_tag

\* The operation's tags without the `or [self.default_tag]`: None and the
\* empty list leave the operation without a tag.
OperationTagsAsGiven(tags, default_tag) == tags.list

\* tags or [self.default_tag]; tags is [given, list], None being not given.
OperationTags(tags, default_tag) ==
    IF ~tags.given \/ tags.list = <<>> THEN <<default_tag>> ELSE tags.list

\* The response resolver's result slot when the call never got to it.
NotCalled ==
    [outcome |-> "not called", error |-> NoError,
     schema |-> DeclaredSchema(<<>>), content_type |-> ""]

\* AutoAPI.register_path, lines 83-109: parameter_object.fields or
\* parameter_object itself, grouped; None has no items().
ParseParameterSchemaAPI(parameter_object) ==
    IF parameter_object.kind = "None"
    THEN [outcome |-> "AttributeError",
          error   |-> Err("AttributeError", "None", "items"),
          dict |-> <<>>, argmaps |-> <<>>, include |-> <<>>]
    ELSE With(LocationArgmapsAPI(parameter_object.fields),
              LAMBDA location_argmaps :
                [outcome |-> "ok",
                 error   |-> NoError,
                 dict    |-> parameter_object.fields,
                 argmaps |-> location_argmaps,
                 include |-> LocationSchemasAPI(location_argmaps)])

\* register_path of AutoMD (lines 176-204) and of AutoAPI (lines 83-152):
\* what the call leaves behind. An exception leaves docs and plugin as they
\* were: nothing before api_spec.path touches them.
RegisterPath(variant, self, ds, plug, d, path_url, http_verb, parameter_object, response_object, func_signature, tags) ==
    With(IF variant = "AutoMD"
         THEN ParseParameterSchema(parameter_object, func_signature,
                                   path_url, http_verb)
         ELSE ParseParameterSchemaAPI(parameter_object),
         LAMBDA ps :
           IF ps.outcome # "ok"
           THEN [outcome |-> ps.outcome, error |-> ps.error, docs |-> ds,
                 plugin |-> plug, parameters |-> ps, response |-> NotCalled]
           ELSE With(IF variant = "AutoMD"
                     THEN ParseResponseSchema(response_object, path_url, http_verb)
                     ELSE ParseResponseSchemaAPI(response_object),
                     LAMBDA rs :
                       IF rs.outcome # "ok"
                       THEN [outcome |-> rs.outcome, error |-> rs.error,
                             docs |-> ds, plugin |-> plug, parameters |-> ps,
                             response |-> rs]
                       ELSE With(SpecPath(ds, plug, d, path_url,
                                          StrLower(http_verb), ps.include,
                                          rs.schema, rs.content_type,
                                          OperationTags(tags,
                                              DefaultTag(self.title,
                                                         self.default_tag))),
                                 LAMBDA done :
                                   [outcome |-> "ok", error |-> NoError,
                                    docs |-> done.docs, plugin |-> done.plugin,
                                    parameters |-> ps, response |-> rs])))

\* start_spec: a new APISpec over self.apispec_options; APISpec.__init__
\* calls init_spec(self) on each of the plugins it is given, which binds the
\* plugin to the new spec with a new converter (empty refs).
StartSpec(ds, plug) ==
    [docs   |-> Append(ds, NewDocument),
     plugin |-> [spec |-> Len(ds) + 1, refs |-> EmptyFunction]]

----------------------------------------------------------------------------
(* Application introspection.                                              *)
(*                                                                         *)
(* app.view_functions is a sequence of views in iteration order. A view is *)
(* [has_methods, path, methods]: path is url_for(view.view_class.endpoint) *)
(* and methods the view's verbs in iteration order, each                   *)
(* [verb, marked, spec]: marked says whether the verb's callable has the   *)
(* automd_spec attribute and spec is that attribute.                       *)

\* The inner loop with each register_path call wrapped in try/except.
RECURSIVE MethodsLoopCatching(_, _, _, _, _, _, _)
MethodsLoopCatching(variant, self, ds, plug, d, key, methods) ==
    IF methods = <<>>
    THEN [outcome |-> "ok", error |-> NoError, docs |-> ds, plugin |-> plug]
    ELSE LET method == Head(methods) IN
         IF ~method.marked
         THEN MethodsLoopCatching(variant, self, ds, plug, d, key, Tail(methods))
         ELSE With(RegisterPath(variant, self, ds, plug, d, key, method.verb,
                                method.spec.parameter_schema,
                                method.spec.response_200,
                                method.spec.func_signature,
                                method.spec.tags),
                   LAMBDA r :
                     MethodsLoopCatching(variant, self, r.docs, r.plugin, d, key,
                                         Tail(methods)))

\* The inner loop, lines 219-240: the methods of one view.
RECURSIVE MethodsLoop(_, _, _, _, _, _, _)
MethodsLoop(variant, self, ds, plug, d, key, methods) ==
    IF methods = <<>>
    THEN [outcome |-> "ok", error |-> NoError, docs |-> ds, plugin |-> plug]
    ELSE LET method == Head(methods) IN
         IF ~method.marked
         THEN MethodsLoop(variant, self, ds, plug, d, key, Tail(methods))
         ELSE With(RegisterPath(variant, self, ds, plug, d, key, method.verb,
                                method.spec.parameter_schema,
                                method.spec.response_200,
                                method.spec.func_signature,
                                method.spec.tags),
                   LAMBDA r :
                     IF r.outcome # "ok"
                     THEN [outcome |-> r.outcome, error |-> r.error,
                           docs |-> r.docs, plugin |-> r.plugin]
                     ELSE MethodsLoop(variant, self, r.docs, r.plugin, d, key,
                                      Tail(methods)))

\* The outer loop, lines 215-217: views without `methods` are passed over.
RECURSIVE ViewsLoop(_, _, _, _, _, _)
ViewsLoop(variant, self, ds, plug, d, views) ==
    IF views = <<>>
    THEN [outcome |-> "ok", error |-> NoError, docs |-> ds, plugin |-> plug]
    ELSE LET view == Head(views) IN
         IF ~view.has_methods
         THEN ViewsLoop(variant, self, ds, plug, d, Tail(views))
         ELSE With(MethodsLoop(variant, self, ds, plug, d, view.path, view.methods),
                   LAMBDA r :
                     IF r.outcome # "ok" THEN r
                     ELSE ViewsLoop(variant, self, r.docs, r.plugin, d, Tail(views)))

\* application_to_apispec: start_spec, then the traversal. An exception of
\* register_path is not caught: it ends the call, and no document is
\* returned.
ApplicationToApispec(variant, self, ds, plug, app) ==
    With(StartSpec(ds, plug),
         LAMBDA started :
           ViewsLoop(variant, self, started.docs, started.plugin, Len(ds) + 1, app))

----------------------------------------------------------------------------
(* Inputs.                                                                 *)

AllNames == <<"text", "json_text", "count", "flag", "extra">>
FieldNames == {AllNames[i] : i \in 1..MaxFields}
ParamNames == {AllNames[i] : i \in 1..MaxParams}

\* fields.String(required=False), without or with a location.
StringField(has_location, location) ==
    NewField("String",
             [required |-> FALSE, doc_default |-> Absent, allow_none |-> Absent,
              description |-> Absent, has_location |-> has_location,
              location |-> location])

ExplicitFields ==
    {StringField(FALSE, <<>>), StringField(TRUE, QUERY), StringField(TRUE, JSON)}

\* Ordered dicts of at most n fields over the given names.
FieldDicts(names, n) ==
    UNION {{dct \in [1..k -> [key : names, val : ExplicitFields]] :
                \A i, j \in 1..k : dct[i].key = dct[j].key => i = j}
           : k \in 0..n}

NoneObject == [kind |-> "None", fields |-> <<>>]
DictObject(dct) == [kind |-> "dict", fields |-> dct]
SchemaObject(dct) == [kind |-> "schema", fields |-> dct]

\* Signatures: an optional leading self, then at most n parameters.
Parameters ==
    [name : ParamNames, annotation : {"str", "Any", "Unmapped"},
     default : {Empty, "None", "Hello"}]
SelfParameter == [name |-> "self", annotation |-> Empty, default |-> Empty]

Signatures(n) ==
    LET plain == UNION {{sig \in [1..k -> Parameters] :
                            \A i, j \in 1..k : sig[i].name = sig[j].name => i = j}
                        : k \in 0..n}
    IN plain \cup {<<SelfParameter>> \o sig : sig \in plain}

NoSignature == <<>>

NoTags == [given |-> FALSE, list |-> <<>>]
EmptyTags == [given |-> TRUE, list |-> <<>>]
SomeTags == [given |-> TRUE, list |-> <<"status">>]

\* Response descriptors: a recognized type, a generic recognized by name,
\* and objects that are their own interface with both, one or none of the
\* two methods.
ValueResponse == Descriptor("ValueResponse", Absent, TRUE, ValueResponseSchemaName,
                            "application/json")
ListOfStr == Descriptor("List[str]", "List", FALSE, <<>>, Absent)
CustomResponse == Descriptor("CustomResponse", Absent, TRUE, CustomSchemaName,
                             "text/html")
SchemaOnly == Descriptor("SchemaOnly", Absent, TRUE, CustomSchemaName, Absent)
ContentTypeOnly == Descriptor("ContentTypeOnly", Absent, FALSE, <<>>, "text/html")
Bare == Descriptor("Bare", Absent, FALSE, <<>>, Absent)

Descriptors ==
    {NoneDescriptor, ValueResponse, ListOfStr, CustomResponse, SchemaOnly,
     ContentTypeOnly, Bare}

\* AutoMD(title, default_tag=...)
Instances == [title : {"App"}, default_tag : {"None", "api"}]

----------------------------------------------------------------------------
(* The state machine.                                                      *)

\* After AutoMD.__init__: no document yet, the plugin made and unbound.
InitWith(inputs) ==
    /\ automd \in Instances
    /\ docs = <<>>
    /\ plugin = [spec |-> 0, refs |-> EmptyFunction]
    /\ last = [op |-> "init"]
    /\ calls = 0
    /\ input \in inputs

Init == InitWith({[kind |-> "any"]})

\* A call of start_spec.
StartSpecStep ==
    /\ Len(docs) < MaxDocs
    /\ \E s \in {StartSpec(docs, plugin)} :
          /\ docs' = s.docs
          /\ plugin' = s.plugin
          /\ last' = [op |-> "start_spec", d |-> Len(docs) + 1]
    /\ UNCHANGED <<automd, calls, input>>

\* A call of register_path on document d.
RegisterStep(variant, d, path_url, http_verb, parameter_object, response_object, func_signature, tags) ==
    /\ calls < MaxCalls
    /\ d \in 1..Len(docs)
    /\ \E r \in {RegisterPath(variant, automd, docs, plugin, d, path_url,
                                http_verb, parameter_object, response_object,
                                func_signature, tags)} :
          /\ docs' = r.docs
          /\ plugin' = r.plugin
          /\ last' = [op |-> "register_path", variant |-> variant, d |-> d,
                      path_url |-> path_url, http_verb |-> http_verb,
                      parameter_object |-> parameter_object,
                      response_object |-> response_object,
                      func_signature |-> func_signature, tags |-> tags,
                      outcome |-> r.outcome, error |-> r.error,
                      parameters |-> r.parameters, response |-> r.response]
    /\ calls' = calls + 1
    /\ UNCHANGED <<automd, input>>

\* A call of AutoMD.parse_parameter_schema on its own.
ParseParameterSchemaStep(parameter_object, func_signature, path_url, http_verb) ==
    /\ last' = [op |-> "parse_parameter_schema",
                parameter_object |-> parameter_object,
                func_signature |-> func_signature,
                path_url |-> path_url, http_verb |-> http_verb,
                result |-> ParseParameterSchema(parameter_object, func_signature,
                                                path_url, http_verb)]
    /\ UNCHANGED <<automd, docs, plugin, calls, input>>

\* A call of application_to_apispec.
BuildStep(variant, app) ==
    /\ Len(docs) < MaxDocs
    /\ \E r \in {ApplicationToApispec(variant, automd, docs, plugin, app)} :
          /\ docs' = r.docs
          /\ plugin' = r.plugin
          /\ last' = [op |-> "application_to_apispec", variant |-> variant,
                      app |-> app, d |-> Len(docs) + 1,
                      outcome |-> r.outcome, error |-> r.error]
    /\ UNCHANGED <<automd, calls, input>>

\* Builds that register into their documents call by call, in any
\* interleaving.
TextQuery == <<[key |-> "text", val |-> StringField(FALSE, <<>>)]>>

RegisterNext ==
    \E d \in 1..MaxDocs, path_url \in Paths, http_verb \in Verbs,
       parameter_object \in {DictObject(<<>>), DictObject(TextQuery)},
       response_object \in {NoneDescriptor, ValueResponse, Bare} :
        RegisterStep("AutoMD", d, path_url, http_verb, parameter_object,
                     response_object, NoSignature, NoTags)

Next == StartSpecStep \/ RegisterNext

Spec == Init /\ [][Next]_vars

\* Parameter resolution over every field collection and signature within
\* the bounds. The caller holds one set of arguments and passes it to
\* parse_parameter_schema of AutoMD, or to register_path of AutoAPI, which
\* holds the same grouping loop.
ParameterInputs ==
    [kind : {"parse"}, path_url : Paths, http_verb : Verbs,
     parameter_object : {NoneObject}, func_signature : Signatures(MaxParams)]
    \cup
    [kind : {"parse"}, path_url : Paths, http_verb : Verbs,
     parameter_object : {DictObject(dct) : dct \in FieldDicts(FieldNames, MaxFields)}
                        \cup {SchemaObject(dct) : dct \in FieldDicts(FieldNames, MaxFields)},
     func_signature : {NoSignature}]
    \cup
    [kind : {"register"}, path_url : {<<"/", "a">>}, http_verb : Verbs,
     parameter_object : {NoneObject}
            \cup {DictObject(dct) : dct \in FieldDicts(FieldNames, MaxFields)},
     func_signature : {NoSignature}]

ParseNext ==
    /\ input.kind = "parse"
    /\ ParseParameterSchemaStep(input.parameter_object, input.func_signature,
                                input.path_url, input.http_verb)

RegisterAPINext ==
    /\ input.kind = "register"
    /\ \/ StartSpecStep
       \/ \E d \in 1..MaxDocs :
            RegisterStep("AutoAPI", d, input.path_url, input.http_verb,
                         input.parameter_object, ValueResponse,
                         input.func_signature, NoTags)

NextParams == ParseNext \/ RegisterAPINext

SpecParams == InitWith(ParameterInputs) /\ [][NextParams]_vars

\* Response resolution over every descriptor: the caller holds one set of
\* arguments and registers it, with either variant, into the documents it
\* starts.
UnmappedSignature ==
    <<[name |-> "value", annotation |-> "Unmapped", default |-> Empty]>>

ResponseInputs ==
    [kind : {"response"}, variant : {"AutoMD", "AutoAPI"}, path_url : Paths,
     http_verb : Verbs, response_object : Descriptors,
     parameter_object : {DictObject(<<>>), DictObject(TextQuery)},
     func_signature : {NoSignature}]
    \cup
    [kind : {"response"}, variant : {"AutoMD"}, path_url : Paths,
     http_verb : Verbs, response_object : Descriptors,
     parameter_object : {NoneObject}, func_signature : {UnmappedSignature}]

RegisterInputNext ==
    \E d \in 1..MaxDocs :
        RegisterStep(input.variant, d, input.path_url, input.http_verb,
                     input.parameter_object, input.response_object,
                     input.func_signature, NoTags)

NextResp == StartSpecStep \/ RegisterInputNext

SpecResp == InitWith(ResponseInputs) /\ [][NextResp]_vars

\* Application introspection over every handler table within the bounds.
UnmarkedCallable ==
    [parameter_schema |-> NoneObject, response_200 |-> NoneDescriptor,
     func_signature |-> NoSignature, tags |-> NoTags]
\* @automd(parameter_schema={"text": fields.String(required=False)}) on
\* get(self, text: str = "Hello") -> ValueResponse
MarkedCallable ==
    [parameter_schema |-> DictObject(TextQuery), response_200 |-> ValueResponse,
     func_signature |-> <<SelfParameter,
                          [name |-> "text", annotation |-> "str",
                           default |-> "Hello"]>>,
     tags |-> NoTags]
\* @automd() on a method with a parameter annotated with an unmapped type.
UnmappedCallable ==
    [parameter_schema |-> NoneObject, response_200 |-> NoneDescriptor,
     func_signature |-> <<SelfParameter>> \o UnmappedSignature,
     tags |-> NoTags]

Methods ==
    {[verb |-> v, marked |-> FALSE, spec |-> UnmarkedCallable] : v \in Verbs}
    \cup {[verb |-> v, marked |-> TRUE, spec |-> MarkedCallable] : v \in Verbs}
    \cup {[verb |-> v, marked |-> TRUE, spec |-> UnmappedCallable] : v \in Verbs}

\* view.methods: the verbs of a view, each once, in any order.
MethodTables ==
    UNION {{t \in [1..k -> Methods] :
                \A i, j \in 1..k : t[i].verb = t[j].verb => i = j}
           : k \in 0..Cardinality(Verbs)}

\* A plain function view has no `methods`, whatever decorates it.
FunctionView ==
    [has_methods |-> FALSE, path |-> <<"/", "a">>,
     methods |-> <<[verb |-> GET, marked |-> TRUE, spec |-> MarkedCallable]>>]

Views ==
    {[has_methods |-> TRUE, path |-> p, methods |-> t] :
        p \in Paths, t \in MethodTables}
    \cup {FunctionView}

Apps == UNION {[1..k -> Views] : k \in 0..MaxViews}

BuildNext ==
    BuildStep("AutoMD", input.app)

SpecBuild ==
    InitWith([kind : {"build"}, app : Apps]) /\ [][BuildNext]_vars

\* Tagging: instances with no default_tag, an empty one and a named one;
\* the caller holds a variant and registers operations with no tags, an
\* empty list or a list of its own.
TagInstances == [title : {"App"}, default_tag : {"None", "", "api"}]

TagInputs == [kind : {"tags"}, variant : {"AutoMD", "AutoAPI"}]

InitTags ==
    /\ automd \in TagInstances
    /\ docs = <<>>
    /\ plugin = [spec |-> 0, refs |-> EmptyFunction]
    /\ last = [op |-> "init"]
    /\ calls = 0
    /\ input \in TagInputs

RegisterTagsNext ==
    \E d \in 1..MaxDocs, path_url \in Paths, http_verb \in Verbs,
       tags \in {NoTags, EmptyTags, SomeTags} :
        RegisterStep(input.variant, d, path_url, http_verb, DictObject(<<>>),
                     ValueResponse, NoSignature, tags)

NextTags == StartSpecStep \/ RegisterTagsNext

SpecTags == InitTags /\ [][NextTags]_vars

\* Naming: endpoints whose paths differ in case, in a trailing slash or in
\* where a slash stands, registered with fields in one or two locations.
NamePaths ==
    Paths \cup { <<"/","a","/">>, <<"/","A">>, <<"/","a","b">>,
                 <<"/","v","1","/","a">>, <<"/","v","1","a">> }

TextQueryJson ==
    <<[key |-> "text", val |-> StringField(FALSE, <<>>)],
      [key |-> "json_text", val |-> StringField(TRUE, JSON)]>>

RegisterNamesNext ==
    \E d \in 1..MaxDocs, path_url \in NamePaths, http_verb \in Verbs,
       parameter_object \in {DictObject(TextQuery), DictObject(TextQueryJson)} :
        RegisterStep("AutoMD", d, path_url, http_verb, parameter_object,
                     NoneDescriptor, NoSignature, NoTags)

NextNames == StartSpecStep \/ RegisterNamesNext

SpecNames == InitWith({[kind |-> "names"]}) /\ [][NextNames]_vars

----------------------------------------------------------------------------
(* Claims.                                                                 *)

\* The grouping a state records: the field collection that went into the
\* grouping loop and the location_argmaps that came out of it.
Grouped ==
    \/ last.op = "parse_parameter_schema" /\ last.result.outcome = "ok"
    \/ last.op = "register_path" /\ last.parameters.outcome = "ok"

GroupingResult ==
    IF last.op = "parse_parameter_schema" THEN last.result ELSE last.parameters

GroupingInput ==
    IF last.parameter_object.kind = "None"
    THEN GroupingResult.dict
    ELSE last.parameter_object.fields

\* C1: the per-location buckets partition the field collection: together
\* they hold exactly the input's field names, no name is in two buckets,
\* every field is in the bucket of its own location ('query' when its
\* metadata has none) with the field it came with, and no bucket is empty.
C1_GroupingIsPartition ==
    Grouped =>
        LET given == GroupingInput
            buckets == GroupingResult.argmaps
        IN /\ UNION {DictKeys(buckets[i].val) : i \in 1..Len(buckets)}
                = DictKeys(given)
           /\ \A i, j \in 1..Len(buckets) :
                 i # j => /\ buckets[i].key # buckets[j].key
                          /\ DictKeys(buckets[i].val) \cap DictKeys(buckets[j].val) = {}
           /\ \A i \in 1..Len(buckets) :
                 /\ buckets[i].val # <<>>
                 /\ \A k \in 1..Len(buckets[i].val) :
                       LET e == buckets[i].val[k] IN
                       /\ \A m \in 1..Len(buckets[i].val) :
                             buckets[i].val[m].key = e.key => m = k
                       /\ e.val = DictVal(given, e.key)
                       /\ buckets[i].key =
                             IF e.val.has_location THEN e.val.location
                             ELSE <<"q", "u", "e", "r", "y">>

\* C1 witness: three fields grouped into two buckets, one of the fields
\* without location metadata, by AutoAPI's loop.
C1_Witness ==
    /\ last.op = "register_path" /\ last.variant = "AutoAPI"
    /\ last.parameters.outcome = "ok"
    /\ Len(last.parameter_object.fields) = 3
    /\ Len(last.parameters.argmaps) = 2
    /\ \E i \in 1..3 : ~last.parameter_object.fields[i].val.has_location

\* The parameters of a signature other than self.
DeclaredParameters(func_signature) ==
    {func_signature[i] : i \in {j \in 1..Len(func_signature) :
                                    func_signature[j].name # "self"}}

Inferred ==
    /\ last.op = "parse_parameter_schema"
    /\ last.parameter_object.kind = "None"
    /\ last.result.outcome = "ok"

\* C5: with no explicit parameter schema, a parse_parameter_schema that
\* returns has produced exactly one field for each parameter of the
\* signature other than self, required exactly when the parameter declares
\* no default; a str parameter gets the string field type.
C5_InferredRequiredIffNoDefault ==
    Inferred =>
        LET declared == DeclaredParameters(last.func_signature)
            dct == last.result.dict
        IN /\ Len(dct) = Cardinality(declared)
           /\ DictKeys(dct) = {p.name : p \in declared}
           /\ \A p \in declared :
                 /\ DictVal(dct, p.name).required = (p.default = Empty)
                 /\ p.annotation = "str" => DictVal(dct, p.name).kind = "String"

\* C5 witness: (self, text: str = "Hello") inferred, with a second
\* parameter that has no default.
C5_Witness ==
    /\ Inferred
    /\ Len(last.func_signature) = 3
    /\ last.func_signature[1].name = "self"
    /\ \E p \in DeclaredParameters(last.func_signature) :
          /\ p.name = "text" /\ p.annotation = "str" /\ p.default = "Hello"
          /\ ~DictVal(last.result.dict, "text").required
    /\ \E p \in DeclaredParameters(last.func_signature) :
          p.default = Empty /\ DictVal(last.result.dict, p.name).required

\* C6: an inferred field is marked nullable (allow_none) exactly when its
\* parameter's default is None.
C6_NullableIffDefaultNone ==
    Inferred =>
        \A p \in DeclaredParameters(last.func_signature) :
            DictVal(last.result.dict, p.name).allow_none = (p.default = "None")

\* C6 failing input: a parameter whose default is None was inferred.
C6_DefaultNoneInferred ==
    /\ Inferred
    /\ \E p \in DeclaredParameters(last.func_signature) : p.default = "None"

\* The (path, verb) entries of a document.
Entries(doc) ==
    UNION {{<<q, v>> : v \in DOMAIN doc.paths[q]} : q \in DOMAIN doc.paths}

\* The handlers of an application in traversal order: the methods of the
\* views that have a `methods` attribute.
RECURSIVE Handlers(_)
Handlers(app) ==
    IF app = <<>> THEN <<>>
    ELSE (IF Head(app).has_methods
          THEN [i \in 1..Len(Head(app).methods) |->
                    [path |-> Head(app).path,
                     verb |-> Head(app).methods[i].verb,
                     marked |-> Head(app).methods[i].marked,
                     unmapped |-> Head(app).methods[i].spec = UnmappedCallable]]
          ELSE <<>>)
         \o Handlers(Tail(app))

LowerVerb(verb) == IF verb = GET THEN <<"g", "e", "t">> ELSE <<"p", "o", "s", "t">>

Pairs(handlers, indices) ==
    {<<handlers[i].path, LowerVerb(handlers[i].verb)>> : i \in indices}

Built == last.op = "application_to_apispec"

\* C2: when application_to_apispec returns, the (path, verb) entries of the
\* returned document are exactly the pairs whose callable carries the
\* marker; an application without marked callables (only unmarked ones and
\* views without `methods`) returns an empty document and raises nothing.
C2_EntriesAreMarkedPairs ==
    Built =>
        LET handlers == Handlers(last.app)
            marked == {i \in 1..Len(handlers) : handlers[i].marked}
        IN /\ last.outcome = "ok" =>
                Entries(docs[last.d]) = Pairs(handlers, marked)
           /\ (\A i \in marked : ~handlers[i].unmapped) => last.outcome = "ok"

\* C2 witness: a returned build over a function view and a view whose two
\* verbs are both marked, both entries under the one path.
C2_Witness ==
    /\ Built /\ last.outcome = "ok"
    /\ \E i \in 1..Len(last.app) : ~last.app[i].has_methods
    /\ \E i \in 1..Len(last.app) :
          /\ last.app[i].has_methods
          /\ Len(last.app[i].methods) = 2
          /\ \A k \in 1..2 : last.app[i].methods[k].marked
          /\ DOMAIN docs[last.d].paths[last.app[i].path]
                = {<<"g", "e", "t">>, <<"p", "o", "s", "t">>}

\* The first marked handler with an unmapped annotation, 0 when none.
FirstUnmapped(handlers) ==
    IF \E i \in 1..Len(handlers) : handlers[i].marked /\ handlers[i].unmapped
    THEN CHOOSE i \in 1..Len(handlers) :
            /\ handlers[i].marked /\ handlers[i].unmapped
            /\ \A j \in 1..(i-1) : ~(handlers[j].marked /\ handlers[j].unmapped)
    ELSE 0

\* C7 as claimed: an unmapped annotation fails with a LookupError-class
\* error (KeyError), and the build still registers every other marked
\* endpoint, wherever the failing one is in the traversal.
C7_OtherEndpointsStillRegistered ==
    (Built /\ FirstUnmapped(Handlers(last.app)) # 0) =>
        LET handlers == Handlers(last.app)
            others == {i \in 1..Len(handlers) :
                          handlers[i].marked /\ ~handlers[i].unmapped}
        IN /\ last.error.class = "KeyError"
           /\ Pairs(handlers, others) \subseteq Entries(docs[last.d])

\* C7 as amended: an unmapped annotation fails with KeyError, and nothing
\* catches it: application_to_apispec raises it at the first such endpoint
\* of the traversal and returns no document; the document it was building
\* holds the marked endpoints before that one and none after it.
C7_BuildAbortsAtFirstUnmapped ==
    (Built /\ FirstUnmapped(Handlers(last.app)) # 0) =>
        LET handlers == Handlers(last.app)
            first == FirstUnmapped(handlers)
            before == {i \in 1..(first - 1) : handlers[i].marked}
        IN /\ last.outcome = "KeyError"
           /\ last.error.class = "KeyError"
           /\ last.error.object = "Unmapped"
           /\ Entries(docs[last.d]) = Pairs(handlers, before)

\* C7 witness: a build that raised with one endpoint registered before the
\* failing one and a marked endpoint after it that is not in the document.
C7_Witness ==
    /\ Built /\ last.outcome = "KeyError"
    /\ LET handlers == Handlers(last.app)
           first == FirstUnmapped(handlers)
       IN /\ first = 2
          /\ handlers[1].marked
          /\ Len(handlers) = 3
          /\ handlers[3].marked /\ ~handlers[3].unmapped
          /\ <<handlers[3].path, LowerVerb(handlers[3].verb)>>
                \notin Entries(docs[last.d])
          /\ Cardinality(Entries(docs[last.d])) = 1

Registered == last.op = "register_path"

SameCall(a, b) ==
    /\ a.variant = b.variant /\ a.d = b.d
    /\ a.path_url = b.path_url /\ a.http_verb = b.http_verb
    /\ a.parameter_object = b.parameter_object
    /\ a.response_object = b.response_object
    /\ a.func_signature = b.func_signature
    /\ a.tags = b.tags

\* C3: a register_path call that repeats the call before it, with the same
\* document, path, verb and inputs, raises nothing and leaves the document
\* as the first call left it.
C3_RegistrationIdempotent ==
    [][(/\ last.op = "register_path" /\ last.outcome = "ok"
        /\ last'.op = "register_path"
        /\ calls' = calls + 1
        /\ SameCall(last, last'))
       => (last'.outcome = "ok" /\ docs'[last.d] = docs[last.d])]_vars

\* C4: a register_path call into one document changes no other document.
C4_BuildsDoNotInterfere ==
    [][(last'.op = "register_path" /\ calls' = calls + 1)
       => \A e \in 1..Len(docs) : e # last'.d => docs'[e] = docs[e]]_vars

\* The descriptor is neither a key of response_object_type_map nor has a
\* `_name` that is one.
Unrecognized(response_object) ==
    /\ response_object.id \notin {"ValueResponse", "List"}
    /\ response_object.name \notin {"ValueResponse", "List"}

\* parse_response_schema of AutoMD was called.
Resolved ==
    /\ Registered /\ last.variant = "AutoMD"
    /\ last.response.outcome # "not called"

\* C8 as claimed: an unrecognized descriptor is its own interface, and when
\* it has no content_type method the resolver does not fail and returns
\* text/plain; the content type returned is never empty.
C8_ContentTypeFallbackNeverFails ==
    (Resolved /\ Unrecognized(last.response_object)) =>
        /\ last.response_object.content_type = Absent =>
              /\ last.response.outcome = "ok"
              /\ last.response.content_type = "text/plain"
        /\ last.response.content_type # ""

\* C8 as amended: an unrecognized descriptor is its own interface; when it
\* is None or has to_schema, and has no content_type method, the resolver
\* does not fail and returns text/plain, a non-empty string, with the
\* descriptor's own schema (the synthesized one for None); with a
\* content_type method it returns what the method returns; a non-null
\* descriptor without to_schema makes the resolver raise AttributeError
\* whatever its content type capability.
C8_ContentTypeFallback ==
    (Resolved /\ Unrecognized(last.response_object)) =>
        LET desc == last.response_object IN
        /\ (desc.id = "None" \/ desc.to_schema) =>
              /\ last.response.outcome = "ok"
              /\ desc.id # "None" =>
                    /\ last.response.schema.name = desc.schema
                    /\ ~last.response.schema.generated
              /\ desc.content_type = Absent =>
                    /\ last.response.content_type = "text/plain"
                    /\ last.response.content_type # ""
              /\ desc.content_type # Absent =>
                    last.response.content_type = desc.content_type
        /\ (desc.id # "None" /\ ~desc.to_schema) =>
              last.response.outcome = "AttributeError"

\* C8 witness: a descriptor with to_schema and without content_type resolved
\* to its own schema and text/plain.
C8_Witness ==
    /\ Resolved
    /\ last.response_object.id = "SchemaOnly"
    /\ last.response.outcome = "ok"
    /\ last.response.content_type = "text/plain"

\* The name the resolver gives the schema it synthesizes for a null
\* descriptor on the paths of the model.
NullResponseSchemaName(path_url, http_verb) ==
    (IF path_url = <<"/", "a">> THEN <<"A">> ELSE <<"A", "B">>)
    \o (IF http_verb = GET THEN <<"G", "e", "t">> ELSE <<"P", "o", "s", "t">>)
    \o <<"R", "e", "s", "p", "o", "n", "s", "e", "S", "c", "h", "e", "m", "a">>

\* C9: given a null response descriptor (and parameters that resolve), the
\* resolver does not fail: it returns an empty schema named from the path
\* and the verb with text/plain, and register_path registers the operation
\* with that schema.
C9_NullDescriptorRegisters ==
    (/\ Registered
     /\ last.response_object.id = "None"
     /\ last.parameters.outcome = "ok") =>
        /\ last.outcome = "ok"
        /\ last.response.schema.name
              = NullResponseSchemaName(last.path_url, last.http_verb)
        /\ last.response.schema.fields = <<>>
        /\ last.response.content_type = "text/plain"
        /\ <<last.path_url, LowerVerb(last.http_verb)>> \in Entries(docs[last.d])
        /\ LET op == docs[last.d].paths[last.path_url][LowerVerb(last.http_verb)]
               name == NullResponseSchemaName(last.path_url, last.http_verb)
               registered == SubSeq(name, 1, Len(name) - 6)
           IN /\ op.responses.content_type = "text/plain"
              /\ SubSeq(op.responses.schema, 1, Len(registered)) = registered

\* C9 restricted to AutoMD, whose resolver has the branch for None.
C9_NullDescriptorRegistersAutoMD ==
    last.op = "register_path" /\ last.variant = "AutoMD"
        => C9_NullDescriptorRegisters

\* The parameters of the call resolved, and its resolved response
\* interface is not None and has no to_schema (the interfaces of the
\* recognized types all have one, so it is an unrecognized descriptor).
NoSchemaCapability(call) ==
    /\ call.op = "register_path"
    /\ call.parameters.outcome = "ok"
    /\ Unrecognized(call.response_object)
    /\ call.response_object.id # "None"
    /\ ~call.response_object.to_schema

\* C10 as claimed: when the resolved interface is non-null and has no
\* to_schema, registration fails with an error that identifies the path and
\* the verb, before the document is changed.
C10_FailureNamesPathAndVerb ==
    [][(calls' = calls + 1 /\ NoSchemaCapability(last'))
       => /\ last'.outcome # "ok"
          /\ last'.error.path_url = last'.path_url
          /\ last'.error.http_verb = last'.http_verb
          /\ docs' = docs]_vars

\* What the code does in the case of C10: registration fails with the
\* AttributeError of the to_schema lookup, which names the interface and
\* the attribute and neither the path nor the verb, before any document or
\* the plugin is changed.
C10_FailsBeforeMutation ==
    [][(calls' = calls + 1 /\ NoSchemaCapability(last'))
       => /\ last'.outcome = "AttributeError"
          /\ last'.error.class = "AttributeError"
          /\ last'.error.object = last'.response_object.id
          /\ last'.error.attribute = "to_schema"
          /\ last'.error.path_url = <<>>
          /\ last'.error.http_verb = <<>>
          /\ docs' = docs
          /\ plugin' = plugin]_vars

\* The case of C10 on a document that already holds an endpoint.
C10_FailedOnToSchema ==
    /\ Registered /\ last.variant = "AutoMD"
    /\ last.response_object.id = "Bare"
    /\ last.outcome = "AttributeError"
    /\ Entries(docs[last.d]) # {}

\* The operations of a document.
Operations(doc) == {doc.paths[e[1]][e[2]] : e \in Entries(doc)}

\* The name of the default tag as C11 states it: the configured
\* default_tag, the application title when there is none (None, or the
\* empty string, which `or` takes for none).
DefaultTagName ==
    IF automd.default_tag \in {"None", ""} THEN automd.title ELSE automd.default_tag

\* C11: in every state every registered operation of every document has a
\* non-empty tags sequence, and a register_path call given no tags (None or
\* an empty list) leaves its operation with exactly one tag, the default
\* tag, named by default_tag or by the title when default_tag is absent; a
\* call given tags leaves its operation with those.
C11_TagsNeverEmpty ==
    /\ \A d \in 1..Len(docs) : \A op \in Operations(docs[d]) : op.tags # <<>>
    /\ (Registered /\ last.outcome = "ok") =>
          LET op == docs[last.d].paths[last.path_url][LowerVerb(last.http_verb)]
          IN IF ~last.tags.given \/ last.tags.list = <<>>
             THEN op.tags = <<DefaultTagName>>
             ELSE op.tags = last.tags.list

\* C11 witness: a call given an empty list on an instance without
\* default_tag left its operation tagged with the title, in a document
\* that holds another operation.
C11_Witness ==
    /\ Registered /\ last.outcome = "ok"
    /\ last.tags = EmptyTags
    /\ automd.default_tag = "None"
    /\ docs[last.d].paths[last.path_url][LowerVerb(last.http_verb)].tags
          = <<automd.title>>
    /\ Cardinality(Entries(docs[last.d])) = 2

\* The name of the sub-schema a register_path call generated for a
\* location.
SubSchemaName(call, loc) == DictVal(call.parameters.include, loc).name

\* The locations a register_path call generated a sub-schema for.
SubSchemaLocations(call) == DictKeys(call.parameters.include)

\* Two register_path calls that follow each other into one document, both
\* returning.
ConsecutiveRegistrations ==
    /\ last.op = "register_path" /\ last.outcome = "ok"
    /\ last'.op = "register_path" /\ last'.outcome = "ok"
    /\ calls' = calls + 1
    /\ last'.d = last.d

\* C12: the name of a location sub-schema depends on (path, verb, location)
\* only, and two endpoints with distinct (path, verb) pairs registered in one
\* build get different sub-schema names for the same location.
C12_SubSchemaNamesDistinct ==
    [][ConsecutiveRegistrations =>
          \A loc \in SubSchemaLocations(last) \cap SubSchemaLocations(last') :
             /\ (last.path_url = last'.path_url /\ last.http_verb = last'.http_verb)
                   => SubSchemaName(last, loc) = SubSchemaName(last', loc)
             /\ <<last.path_url, last.http_verb>> # <<last'.path_url, last'.http_verb>>
                   => SubSchemaName(last, loc) # SubSchemaName(last', loc)]_vars

\* The part of C12 that the code has: calls with the same path and verb
\* name the sub-schema of a location alike, whatever fields they bring.
C12_NameIsFunctionOfPathVerbLocation ==
    [][ConsecutiveRegistrations =>
          \A loc \in SubSchemaLocations(last) \cap SubSchemaLocations(last') :
             (last.path_url = last'.path_url /\ last.http_verb = last'.http_verb)
                => SubSchemaName(last, loc) = SubSchemaName(last', loc)]_vars

\* The case of C12 where the names collide: "/v1/a" and "/v1a" in one
\* document, each with a query sub-schema.
C12_CollidingPathsRegistered ==
    /\ Registered /\ last.outcome = "ok"
    /\ last.path_url = <<"/","v","1","a">>
    /\ <<"/","v","1","/","a">> \in DOMAIN docs[last.d].paths
    /\ SubSchemaName(last, QUERY)
          = <<"V","1","A","G","e","t","Q","u","e","r","y">> \o SchemaWord

====
